---- MODULE Spec2Model ----
(***************************************************************************)
(* The cache-aside message layer: RedisClient (the cache store adapter),   *)
(* MessageRepository (the durable store adapter), CachedMessageRepository  *)
(* (the orchestration) and MessageSyncJob (the reconciliation job).        *)
(*                                                                         *)
(* One action is one I/O of a handler as the store executes it, together   *)
(* with the handler's code that runs on its reply up to the next I/O.  A   *)
(* handler is called with the action of its first I/O and returns with the *)
(* action of its last one; the stores serialise the I/Os, so every         *)
(* interleaving of the handlers' awaits is an interleaving of actions.     *)
(***************************************************************************)
EXTENDS Integers, Sequences, FiniteSets, TLC

\* ---------------------------------------------------------------- constants
MESSAGE_TTL == 1200
TTL_THRESHOLD == 300
\* SYNC_INTERVAL = 5 * 60 * 1000 milliseconds, in seconds
SYNC_INTERVAL == 300
WARM_CACHE_LIMIT == 100
SYNC_EXISTING_LIMIT == 1000

\* ------------------------------------------------------------------- bounds
MaxMsgs == 2
NumProcs == 1
MaxCycles == 2
MaxTicks == 5
WarmExtra == 5
SyncExtra == 1

Procs == 1..NumProcs
Users == {"u1", "u2"}
Limits == {1, 2}
\* What a caller passes to create: a type and a content.
Inputs == {[type |-> "user", content |-> "hi"], [type |-> "ai", content |-> "ok"]}
\* What a caller passes to update.
UpdateInputs == {[content |-> "edited"]}
\* Elapsed seconds between two observations of the clock.
TickSteps == {TTL_THRESHOLD - 1}

Null == [null |-> TRUE]

VARIABLES
    pg,        \* the rows of the messages table
    pgNow,     \* the durable store's clock (defaultNow)
    pgNextId,  \* the next id defaultRandom hands out
    pgUp,      \* FALSE: every durable call fails
    redis,     \* the cache: per user Null or [value, ttl]
    redisUp,   \* FALSE: every cache call fails
    procs,     \* the handlers in flight, per request slot
    ret,       \* what the last handler of each slot returned
    appends,   \* the addUserMessage calls create left running
    job,       \* the sync cycle in flight
    intervalId, \* MessageSyncJob.intervalId: 0 for null, or the timer setInterval returned
    timers,    \* the interval timers of the event loop: the id and the seconds since it fired
    durableIds, \* history: the ids the durable store has ever inserted
    overlap,   \* a second sync cycle, begun while the cycle of job is in flight
    auth,      \* per request slot, the last signup, login or Google login: its result, its reply, its warmCache call
    created,   \* history: the messages create has returned and no update or delete was issued for since
    fresh      \* history: per user, the list a cache miss populated and nothing has written since

vars == <<pg, pgNow, pgNextId, pgUp, redis, redisUp, procs, ret, appends, job,
          intervalId, timers, durableIds, auth, overlap, created, fresh>>

\* ------------------------------------------------------------------ helpers
Min(a, b) == IF a < b THEN a ELSE b
Max(a, b) == IF a > b THEN a ELSE b

Range(s) == {s[i] : i \in 1..Len(s)}

Reverse(s) == [i \in 1..Len(s) |-> s[Len(s) + 1 - i]]

\* Array.prototype.slice(-n) for n >= 1: the last n elements.
SliceLast(s, n) == SubSeq(s, Max(1, Len(s) - n + 1), Len(s))

FilterKeepsAll(cached, id) == cached

\* Array.prototype.filter
RECURSIVE Filter(_, _)
Filter(s, id) ==
    IF s = <<>> THEN <<>>
    ELSE (IF Head(s).id # id THEN <<Head(s)>> ELSE <<>>) \o Filter(Tail(s), id)

\* ------------------------------------------------------- MessageRepository
\* insert(messages).values(values).returning(): the row as stored.
PgRow(values, id, now) ==
    [id |-> id, userId |-> values.userId, type |-> values.type,
     content |-> values.content, timestamp |-> now]

PgCreateLosesRow(rows, values, id, now) == rows

PgCreateReplaces(rows, values, id, now) == {PgRow(values, id, now)}

PgCreate(rows, values, id, now) == rows \cup {PgRow(values, id, now)}

PgHasIdNever(rows, id) == FALSE

PgHasId(rows, id) == \E r \in rows : r.id = id

PgFindById(rows, id) ==
    IF PgHasId(rows, id) THEN CHOOSE r \in rows : r.id = id ELSE Null

\* orderBy(desc(messages.timestamp)): the rows from the latest timestamp down. The
\* clock counts from 1 and gives every insert a timestamp of its own, so the order
\* is that of the timestamps in use, read from the latest down.
OrderByDesc(rows) ==
    IF rows = {} THEN <<>>
    ELSE LET stamps == {r.timestamp : r \in rows}
             latest == CHOOSE t \in stamps : \A o \in stamps : o <= t
             down == SelectSeq([i \in 1..latest |-> latest + 1 - i], LAMBDA t : t \in stamps)
         IN  [i \in 1..Len(down) |-> CHOOSE r \in rows : r.timestamp = down[i]]

PgLimit(s, n) == SubSeq(s, 1, Min(n, Len(s)))

PgFindByUserIdNoReverse(rows, userId, limit) ==
    PgLimit(OrderByDesc({r \in rows : r.userId = userId}), limit)

PgFindByUserIdNoLimit(rows, userId, limit) ==
    Reverse(OrderByDesc({r \in rows : r.userId = userId}))

PgFindByUserIdAnyUser(rows, userId, limit) ==
    Reverse(PgLimit(OrderByDesc(rows), limit))

PgFindByUserId(rows, userId, limit) ==
    Reverse(PgLimit(OrderByDesc({r \in rows : r.userId = userId}), limit))

PgUpdate(rows, id, content) ==
    {IF r.id = id THEN [r EXCEPT !.content = content] ELSE r : r \in rows}

PgDelete(rows, id) == {r \in rows : r.id # id}

\* -------------------------------------------------------------- RedisClient
\* JSON.stringify turns a Date into its ISO string; new Date(string) reads it back.
ToISOString(t) == <<"iso", t>>
NewDate(s) == s[2]

JsonStringify(messages) ==
    [i \in 1..Len(messages) |->
        [messages[i] EXCEPT !.timestamp = ToISOString(messages[i].timestamp)]]

JsonParse(value) ==
    [i \in 1..Len(value) |-> [value[i] EXCEPT !.timestamp = NewDate(value[i].timestamp)]]

SetUserMessagesDropped(r, userId, messages) == r

\* setex(key, MESSAGE_TTL, JSON.stringify(messages))
SetUserMessages(r, userId, messages) ==
    [r EXCEPT ![userId] = [value |-> JsonStringify(messages), ttl |-> MESSAGE_TTL]]

\* get(key) found a value: getUserMessages does not return null.
HasUserMessages(r, userId) == r[userId] # Null

\* get(key), parsed; read only where HasUserMessages holds or null counts as [].
GetUserMessages(r, userId) ==
    IF r[userId] = Null THEN <<>> ELSE JsonParse(r[userId].value)

\* ttl(key): the seconds left, -2 when the key is absent.
GetMessagesTTL(r, userId) == IF r[userId] = Null THEN -2 ELSE r[userId].ttl

\* expire(key, MESSAGE_TTL): no effect on an absent key.
RefreshMessagesTTL(r, userId) ==
    IF r[userId] = Null THEN r ELSE [r EXCEPT ![userId].ttl = MESSAGE_TTL]

\* The key expiry of the store: d seconds later.
Expire(r, d) ==
    [u \in Users |->
        IF r[u] = Null \/ r[u].ttl - d <= 0 THEN Null ELSE [r[u] EXCEPT !.ttl = @ - d]]

ExpiringAnyTTL(r, u, thresholdSeconds) == GetMessagesTTL(r, u) > 0

\* The test of getUsersWithExpiringMessages on one key.
Expiring(r, u, thresholdSeconds) ==
    GetMessagesTTL(r, u) > 0 /\ GetMessagesTTL(r, u) <= thresholdSeconds

\* ------------------------------------------------------------- handler state
Idle ==
    [op |-> "idle", pc |-> "", userId |-> "", limit |-> 0, id |-> 0,
     list |-> <<>>, row |-> Null, updates |-> Null,
     cacheErr |-> FALSE, pgErr |-> FALSE, pgReads |-> 0, quiet |-> FALSE]

NoRet ==
    [op |-> "", userId |-> "", limit |-> 0, id |-> 0, outcome |-> "",
     list |-> <<>>, row |-> Null, ok |-> FALSE,
     cacheErr |-> FALSE, pgErr |-> FALSE, pgReads |-> 0, hit |-> FALSE,
     quiet |-> FALSE, second |-> FALSE, ttlBefore |-> 0]

\* No authentication route has run in the slot.
NoAuth == [warm |-> "none", result |-> Null, reply |-> Null]

NoJob ==
    [pc |-> "idle", keys |-> <<>>, expiringUsers |-> <<>>, userId |-> "",
     newMessages |-> <<>>, failed |-> FALSE, cycles |-> 0,
     \* what the last start() or stop() did
     life |-> "",
     \* history of the cycle: whether its scan has returned and with which users, the
     \* users syncToPostgres was called for, those for which it failed or left a
     \* message uncopied, and those of the cycle before
     scanned |-> FALSE, candidates |-> {}, attempted |-> {}, failedUsers |-> {},
     retry |-> {},
     \* history of the cycle: the ttl reply per key, the ids inserted, the stores as
     \* the cycle's last I/O left them, and whether it has only ever found them so
     ttlSeen |-> [u \in Users |-> -2], unsynced |-> [u \in Users |-> {}],
     inserted |-> {}, before |-> {}, world |-> <<>>, alone |-> FALSE]

\* No other handler, background append or sync cycle is in flight.
Alone(p) ==
    /\ \A q \in Procs \ {p} : procs[q].op = "idle"
    /\ appends = {}
    /\ job.pc = "idle"

\* Handler p is called: whatever else is in flight is no longer alone.
Call(p, pr) ==
    [q \in Procs |->
        IF q = p THEN [pr EXCEPT !.quiet = Alone(p)]
        ELSE [procs[q] EXCEPT !.quiet = FALSE]]

\* Handler p is called and returns with its first I/O.
CallAndReturn(p) ==
    [q \in Procs |-> IF q = p THEN Idle ELSE [procs[q] EXCEPT !.quiet = FALSE]]

\* Handler p goes on.
Step(p, pr) == [procs EXCEPT ![p] = pr]

\* Handler p returns or raises.
Return(p, pr, outcome) ==
    [NoRet EXCEPT !.op = pr.op, !.userId = pr.userId, !.limit = pr.limit,
                  !.id = pr.id, !.outcome = outcome, !.cacheErr = pr.cacheErr,
                  !.pgErr = pr.pgErr, !.pgReads = pr.pgReads, !.quiet = pr.quiet,
                  !.second = /\ pr.op = "find"
                             /\ fresh[pr.userId] # Null
                             /\ p \in fresh[pr.userId].readers]

\* An update or delete of id has been issued and is in flight.
Issued(id) == \E q \in Procs : procs[q].op \in {"update", "delete"} /\ procs[q].id = id

\* A write that concerns userId ends what the history holds about its cache.
Written(userId) == [fresh EXCEPT ![userId] = Null]

Init ==
    /\ pg = {}
    /\ pgNow = 0
    /\ pgNextId = 1
    /\ pgUp = TRUE
    /\ redis = [u \in Users |-> Null]
    /\ redisUp = TRUE
    /\ procs = [p \in Procs |-> Idle]
    /\ ret = [p \in Procs |-> NoRet]
    /\ appends = {}
    /\ job = NoJob
    /\ intervalId = 0
    /\ timers = {}
    /\ durableIds = {r.id : r \in pg}
    /\ auth = [p \in Procs |-> NoAuth]
    /\ overlap = NoJob
    /\ created = {}
    /\ fresh = [u \in Users |-> Null]

\* ------------------------------------------- CachedMessageRepository.create
\* await pgRepo.create(message); redis.addUserMessage(...).catch(...); return created
Create(p, userId, in, givenId) ==
    /\ procs[p].op = "idle"
    /\ LET pr == [Idle EXCEPT !.op = "create", !.userId = userId, !.id = givenId, !.quiet = Alone(p)]
           id == IF givenId # 0 THEN givenId ELSE pgNextId
           values == [userId |-> userId, type |-> in.type, content |-> in.content]
           row == PgRow(values, id, pgNow + 1)
       IN  IF ~pgUp \/ PgHasId(pg, id)
           THEN /\ ret' = [ret EXCEPT ![p] = Return(p, [pr EXCEPT !.pgErr = TRUE], "raised")]
                /\ procs' = CallAndReturn(p)
                /\ UNCHANGED <<pg, pgNow, pgNextId, appends, created, fresh>>
           ELSE /\ pg' = PgCreate(pg, values, id, pgNow + 1)
                /\ pgNow' = pgNow + 1
                /\ pgNextId' = IF givenId # 0 THEN pgNextId ELSE pgNextId + 1
                /\ appends' = appends \cup {[message |-> row, pc |-> "get", messages |-> <<>>]}
                /\ ret' = [ret EXCEPT ![p] = [Return(p, pr, "ok") EXCEPT !.row = row, !.id = id]]
                /\ procs' = CallAndReturn(p)
                /\ created' = IF Issued(id) THEN created ELSE created \cup {row}
                /\ fresh' = Written(userId)
    /\ UNCHANGED <<pgUp, redis, redisUp, job>>
    /\ durableIds' = durableIds \cup {r.id : r \in pg'}
    /\ UNCHANGED <<intervalId, timers, auth, overlap>>

\* ---------------------------------------------- RedisClient.addUserMessage
\* let messages = await this.getUserMessages(userId) || []; messages.push(message)
AddUserMessageGet(a) ==
    /\ a \in appends
    /\ a.pc = "get"
    /\ IF ~redisUp
       THEN appends' = appends \ {a}
       ELSE LET messages == GetUserMessages(redis, a.message.userId)
            IN  appends' = (appends \ {a})
                    \cup {[a EXCEPT !.pc = "set", !.messages = Append(messages, a.message)]}
    /\ UNCHANGED <<pg, pgNow, pgNextId, pgUp, redis, redisUp, procs, ret, job,
                   created, fresh>>
    /\ UNCHANGED <<intervalId, timers, durableIds, auth, overlap>>

\* await this.setUserMessages(userId, messages)
AddUserMessageSet(a) ==
    /\ a \in appends
    /\ a.pc = "set"
    /\ appends' = appends \ {a}
    /\ IF ~redisUp
       THEN UNCHANGED <<redis, fresh>>
       ELSE /\ redis' = SetUserMessages(redis, a.message.userId, a.messages)
            /\ fresh' = Written(a.message.userId)
    /\ UNCHANGED <<pg, pgNow, pgNextId, pgUp, redisUp, procs, ret, job, created>>
    /\ UNCHANGED <<intervalId, timers, durableIds, auth, overlap>>

\* ------------------------------------- CachedMessageRepository.findByUserId
\* const cached = await this.redis.getUserMessages(userId)
FindGet(p, userId, limit) ==
    /\ procs[p].op = "idle"
    /\ LET pr == [Idle EXCEPT !.op = "find", !.userId = userId, !.limit = limit]
           cached == GetUserMessages(redis, userId)
       IN  IF ~redisUp
           THEN /\ procs' = Call(p, [pr EXCEPT !.pc = "fallback", !.cacheErr = TRUE])
                /\ UNCHANGED fresh
           ELSE /\ procs' = Call(p, IF HasUserMessages(redis, userId) /\ Len(cached) > 0
                                    THEN [pr EXCEPT !.pc = "refresh", !.list = cached]
                                    ELSE [pr EXCEPT !.pc = "pgread"])
                /\ fresh' = [u \in Users |->
                                IF fresh[u] = Null THEN Null
                                ELSE IF u = userId /\ fresh[u].limit = limit
                                THEN [fresh[u] EXCEPT !.readers = @ \cup {p}]
                                ELSE [fresh[u] EXCEPT !.readers = @ \ {p}]]
    /\ ret' = [ret EXCEPT ![p] = NoRet]
    /\ UNCHANGED <<pg, pgNow, pgNextId, pgUp, redis, redisUp, appends, job, created>>
    /\ UNCHANGED <<intervalId, timers, durableIds, auth, overlap>>

\* await this.redis.refreshMessagesTTL(userId); return cached.slice(-limit)
FindRefresh(p) ==
    /\ procs[p].op = "find"
    /\ procs[p].pc = "refresh"
    /\ LET pr == procs[p]
       IN  IF ~redisUp
           THEN /\ procs' = Step(p, [pr EXCEPT !.pc = "fallback", !.cacheErr = TRUE, !.list = <<>>])
                /\ UNCHANGED <<redis, ret>>
           ELSE /\ redis' = RefreshMessagesTTL(redis, pr.userId)
                /\ procs' = Step(p, Idle)
                /\ ret' = [ret EXCEPT ![p] =
                        [Return(p, pr, "ok") EXCEPT
                            !.list = SliceLast(pr.list, pr.limit),
                            !.hit = TRUE,
                            !.ttlBefore = GetMessagesTTL(redis, pr.userId)]]
    /\ UNCHANGED <<pg, pgNow, pgNextId, pgUp, redisUp, appends, job, created, fresh>>
    /\ UNCHANGED <<intervalId, timers, durableIds, auth, overlap>>

\* const messages = await this.pgRepo.findByUserId(userId, limit)
FindPgRead(p) ==
    /\ procs[p].op = "find"
    /\ procs[p].pc = "pgread"
    /\ LET pr == [procs[p] EXCEPT !.pgReads = @ + 1]
       IN  IF ~pgUp
           THEN /\ procs' = Step(p, [pr EXCEPT !.pc = "fallback", !.pgErr = TRUE])
                /\ UNCHANGED ret
           ELSE LET messages == PgFindByUserId(pg, pr.userId, pr.limit)
                IN  IF Len(messages) > 0
                    THEN /\ procs' = Step(p, [pr EXCEPT !.pc = "populate", !.list = messages])
                         /\ UNCHANGED ret
                    ELSE /\ procs' = Step(p, Idle)
                         /\ ret' = [ret EXCEPT ![p] = [Return(p, pr, "ok") EXCEPT !.list = messages]]
    /\ UNCHANGED <<pg, pgNow, pgNextId, pgUp, redis, redisUp, appends, job,
                   created, fresh>>
    /\ UNCHANGED <<intervalId, timers, durableIds, auth, overlap>>

\* await this.redis.setUserMessages(userId, messages); return messages
FindPopulate(p) ==
    /\ procs[p].op = "find"
    /\ procs[p].pc = "populate"
    /\ LET pr == procs[p]
       IN  IF ~redisUp
           THEN /\ procs' = Step(p, [pr EXCEPT !.pc = "fallback", !.cacheErr = TRUE, !.list = <<>>])
                /\ UNCHANGED <<redis, ret, fresh>>
           ELSE /\ redis' = SetUserMessages(redis, pr.userId, pr.list)
                /\ procs' = Step(p, Idle)
                /\ ret' = [ret EXCEPT ![p] = [Return(p, pr, "ok") EXCEPT !.list = pr.list]]
                /\ fresh' = [fresh EXCEPT ![pr.userId] =
                                [limit |-> pr.limit, list |-> pr.list, readers |-> {}]]
    /\ UNCHANGED <<pg, pgNow, pgNextId, pgUp, redisUp, appends, job, created>>
    /\ UNCHANGED <<intervalId, timers, durableIds, auth, overlap>>

\* catch (error) { return this.pgRepo.findByUserId(userId, limit) }
FindFallback(p) ==
    /\ procs[p].op = "find"
    /\ procs[p].pc = "fallback"
    /\ LET pr == [procs[p] EXCEPT !.pgReads = @ + 1]
       IN  /\ procs' = Step(p, Idle)
           /\ ret' = [ret EXCEPT ![p] =
                   IF ~pgUp THEN Return(p, [pr EXCEPT !.pgErr = TRUE], "raised")
                   ELSE [Return(p, pr, "ok") EXCEPT
                            !.list = PgFindByUserId(pg, pr.userId, pr.limit)]]
    /\ UNCHANGED <<pg, pgNow, pgNextId, pgUp, redis, redisUp, appends, job,
                   created, fresh>>
    /\ UNCHANGED <<intervalId, timers, durableIds, auth, overlap>>

\* const value = await this.client.get(key): the command is sent and no reply comes.
\* The client sets no commandTimeout and findByUserId arms no deadline, so the
\* await stays pending.
FindGetStalls(p, userId, limit) ==
    /\ procs[p].op = "idle"
    /\ redisUp
    /\ procs' = Call(p, [Idle EXCEPT !.op = "find", !.userId = userId, !.limit = limit,
                                     !.pc = "stalled"])
    /\ ret' = [ret EXCEPT ![p] = NoRet]
    /\ UNCHANGED <<pg, pgNow, pgNextId, pgUp, redis, redisUp, appends, job, created, fresh>>
    /\ UNCHANGED <<intervalId, timers, durableIds, auth, overlap>>

\* await this.client.expire(...) or await this.client.setex(...): the same for the
\* second cache call of a read.
FindCacheCallStalls(p) ==
    /\ procs[p].op = "find"
    /\ procs[p].pc \in {"refresh", "populate"}
    /\ redisUp
    /\ procs' = Step(p, [procs[p] EXCEPT !.pc = "stalled"])
    /\ UNCHANGED <<pg, pgNow, pgNextId, pgUp, redis, redisUp, ret, appends, job, created, fresh>>
    /\ UNCHANGED <<intervalId, timers, durableIds, auth, overlap>>

\* ------------------------------------------- CachedMessageRepository.update
\* { ...msg, ...updates }
Merge(msg, updates) ==
    [f \in DOMAIN msg |-> IF f \in DOMAIN updates THEN updates[f] ELSE msg[f]]

MapUpdateAll(cached, id, updates) ==
    [i \in 1..Len(cached) |-> Merge(cached[i], updates)]

\* cached.map((msg) => msg.id === id ? { ...msg, ...updates } : msg)
MapUpdate(cached, id, updates) ==
    [i \in 1..Len(cached) |->
        IF cached[i].id = id THEN Merge(cached[i], updates) ELSE cached[i]]

\* const updated = await this.pgRepo.update(id, updates)
UpdatePg(p, id, updates) ==
    /\ procs[p].op = "idle"
    /\ LET pr == [Idle EXCEPT !.op = "update", !.id = id, !.updates = updates]
           found == PgFindById(pg, id)
       IN  IF ~pgUp
           THEN /\ procs' = CallAndReturn(p)
                /\ ret' = [ret EXCEPT ![p] = Return(p, [pr EXCEPT !.pgErr = TRUE, !.quiet = Alone(p)], "raised")]
                /\ UNCHANGED <<pg, fresh>>
           ELSE IF found = Null
           THEN /\ procs' = CallAndReturn(p)
                /\ ret' = [ret EXCEPT ![p] = Return(p, [pr EXCEPT !.quiet = Alone(p)], "ok")]
                /\ UNCHANGED <<pg, fresh>>
           ELSE /\ pg' = PgUpdate(pg, id, updates.content)
                /\ procs' = Call(p, [pr EXCEPT !.pc = "u_get", !.userId = found.userId,
                                               !.row = [found EXCEPT !.content = updates.content]])
                /\ ret' = [ret EXCEPT ![p] = NoRet]
                /\ fresh' = Written(found.userId)
    /\ created' = {m \in created : m.id # id}
    /\ UNCHANGED <<pgNow, pgNextId, pgUp, redis, redisUp, appends, job>>
    /\ UNCHANGED <<intervalId, timers, durableIds, auth, overlap>>

\* const cached = await this.redis.getUserMessages(updated.userId)
UpdateGet(p) ==
    /\ procs[p].op = "update"
    /\ procs[p].pc = "u_get"
    /\ LET pr == procs[p]
       IN  IF ~redisUp
           THEN /\ procs' = Step(p, Idle)
                /\ ret' = [ret EXCEPT ![p] = Return(p, [pr EXCEPT !.cacheErr = TRUE], "raised")]
           ELSE IF ~HasUserMessages(redis, pr.userId)
           THEN /\ procs' = Step(p, Idle)
                /\ ret' = [ret EXCEPT ![p] = [Return(p, pr, "ok") EXCEPT !.row = pr.row]]
           ELSE /\ procs' = Step(p, [pr EXCEPT !.pc = "u_set",
                        !.list = MapUpdate(GetUserMessages(redis, pr.userId), pr.id, pr.updates)])
                /\ UNCHANGED ret
    /\ UNCHANGED <<pg, pgNow, pgNextId, pgUp, redis, redisUp, appends, job,
                   created, fresh>>
    /\ UNCHANGED <<intervalId, timers, durableIds, auth, overlap>>

\* await this.redis.setUserMessages(updated.userId, updatedCache); return updated
UpdateSet(p) ==
    /\ procs[p].op = "update"
    /\ procs[p].pc = "u_set"
    /\ LET pr == procs[p]
       IN  /\ procs' = Step(p, Idle)
           /\ IF ~redisUp
              THEN /\ ret' = [ret EXCEPT ![p] = Return(p, [pr EXCEPT !.cacheErr = TRUE], "raised")]
                   /\ UNCHANGED <<redis, fresh>>
              ELSE /\ redis' = SetUserMessages(redis, pr.userId, pr.list)
                   /\ ret' = [ret EXCEPT ![p] = [Return(p, pr, "ok") EXCEPT !.row = pr.row]]
                   /\ fresh' = Written(pr.userId)
    /\ UNCHANGED <<pg, pgNow, pgNextId, pgUp, redisUp, appends, job, created>>
    /\ UNCHANGED <<intervalId, timers, durableIds, auth, overlap>>

\* ------------------------------------------- CachedMessageRepository.delete
\* const message = await this.pgRepo.findById(id)
DeleteFind(p, id) ==
    /\ procs[p].op = "idle"
    /\ LET pr == [Idle EXCEPT !.op = "delete", !.id = id]
           message == PgFindById(pg, id)
       IN  IF ~pgUp
           THEN /\ procs' = CallAndReturn(p)
                /\ ret' = [ret EXCEPT ![p] = Return(p, [pr EXCEPT !.pgErr = TRUE, !.quiet = Alone(p)], "raised")]
           ELSE /\ procs' = Call(p, IF message = Null THEN [pr EXCEPT !.pc = "d_pg"]
                                    ELSE [pr EXCEPT !.pc = "d_get", !.userId = message.userId])
                /\ ret' = [ret EXCEPT ![p] = NoRet]
    /\ created' = {m \in created : m.id # id}
    /\ UNCHANGED <<pg, pgNow, pgNextId, pgUp, redis, redisUp, appends, job, fresh>>
    /\ UNCHANGED <<intervalId, timers, durableIds, auth, overlap>>

\* const cached = await this.redis.getUserMessages(message.userId)
DeleteGet(p) ==
    /\ procs[p].op = "delete"
    /\ procs[p].pc = "d_get"
    /\ LET pr == procs[p]
       IN  IF ~redisUp
           THEN /\ procs' = Step(p, Idle)
                /\ ret' = [ret EXCEPT ![p] = Return(p, [pr EXCEPT !.cacheErr = TRUE], "raised")]
           ELSE /\ procs' = Step(p, IF ~HasUserMessages(redis, pr.userId)
                                    THEN [pr EXCEPT !.pc = "d_pg"]
                                    ELSE [pr EXCEPT !.pc = "d_set",
                                             !.list = Filter(GetUserMessages(redis, pr.userId), pr.id)])
                /\ UNCHANGED ret
    /\ UNCHANGED <<pg, pgNow, pgNextId, pgUp, redis, redisUp, appends, job,
                   created, fresh>>
    /\ UNCHANGED <<intervalId, timers, durableIds, auth, overlap>>

\* await this.redis.setUserMessages(message.userId, filteredCache)
DeleteSet(p) ==
    /\ procs[p].op = "delete"
    /\ procs[p].pc = "d_set"
    /\ LET pr == procs[p]
       IN  IF ~redisUp
           THEN /\ procs' = Step(p, Idle)
                /\ ret' = [ret EXCEPT ![p] = Return(p, [pr EXCEPT !.cacheErr = TRUE], "raised")]
                /\ UNCHANGED <<redis, fresh>>
           ELSE /\ redis' = SetUserMessages(redis, pr.userId, pr.list)
                /\ procs' = Step(p, [pr EXCEPT !.pc = "d_pg", !.list = <<>>])
                /\ fresh' = Written(pr.userId)
                /\ UNCHANGED ret
    /\ UNCHANGED <<pg, pgNow, pgNextId, pgUp, redisUp, appends, job, created>>
    /\ UNCHANGED <<intervalId, timers, durableIds, auth, overlap>>

\* return this.pgRepo.delete(id)
DeletePg(p) ==
    /\ procs[p].op = "delete"
    /\ procs[p].pc = "d_pg"
    /\ LET pr == procs[p]
       IN  /\ procs' = Step(p, Idle)
           /\ IF ~pgUp
              THEN /\ ret' = [ret EXCEPT ![p] = Return(p, [pr EXCEPT !.pgErr = TRUE], "raised")]
                   /\ UNCHANGED <<pg, fresh>>
              ELSE /\ pg' = PgDelete(pg, pr.id)
                   /\ ret' = [ret EXCEPT ![p] = [Return(p, pr, "ok") EXCEPT !.ok = PgHasId(pg, pr.id)]]
                   /\ fresh' = IF PgHasId(pg, pr.id) THEN Written(PgFindById(pg, pr.id).userId)
                               ELSE fresh
    /\ UNCHANGED <<pgNow, pgNextId, pgUp, redis, redisUp, appends, job, created>>
    /\ UNCHANGED <<intervalId, timers, durableIds, auth, overlap>>

\* ------------------------------------------------- authRoutes and warmCache
\* What services.auth.register, login and loginWithGoogle resolve to.
AuthResults ==
    {[user |-> [id |-> "u1", email |-> "a@x.io"], token |-> "t1"],
     [user |-> [id |-> "u2", email |-> "b@x.io"], token |-> "t2"]}

RouteError == [error |-> TRUE]

\* reply.send({ user: { id, email }, token })
Reply(result) ==
    [user |-> [id |-> result.user.id, email |-> result.user.email], token |-> result.token]

CatchWarmRaises(reply, outcome) == IF outcome = "raised" THEN RouteError ELSE reply

\* .catch((err) => { fastify.log.error(...) }): the rejection is logged
CatchWarm(reply, outcome) == reply

\* The warmCache call a route left running has done its first store call.
WarmCalled(a) == IF a.warm = "pending" THEN [a EXCEPT !.warm = "called"] ELSE a

\* The promise of that warmCache call settles.
WarmSettled(a, outcome) ==
    IF a.warm = "none" THEN a
    ELSE [a EXCEPT !.warm = "settled", !.reply = CatchWarm(@, outcome)]

\* POST /signup, /login, /google once the auth service has resolved to result:
\* warmCache(result.user.id) is called and not awaited when there is a cached
\* repository, and the reply is sent.
AuthRoute(p, result, hasRepo) ==
    /\ procs[p].op = "idle"
    /\ auth[p].warm \in {"none", "settled"}
    /\ auth' = [auth EXCEPT ![p] = [warm |-> IF hasRepo THEN "pending" ELSE "none",
                                    result |-> result,
                                    reply |-> Reply(result)]]
    /\ UNCHANGED <<pg, pgNow, pgNextId, pgUp, redis, redisUp, procs, ret, appends, job,
                   intervalId, timers, durableIds, overlap, created, fresh>>

\* ---------------------------------------- CachedMessageRepository.warmCache
\* const messages = await this.pgRepo.findByUserId(userId, 100)
WarmRead(p, userId) ==
    /\ procs[p].op = "idle"
    /\ LET pr == [Idle EXCEPT !.op = "warm", !.userId = userId]
       IN  IF ~pgUp
           THEN /\ procs' = CallAndReturn(p)
                /\ ret' = [ret EXCEPT ![p] = Return(p, [pr EXCEPT !.pgErr = TRUE, !.quiet = Alone(p)], "raised")]
                /\ auth' = [auth EXCEPT ![p] = WarmSettled(@, "raised")]
           ELSE LET messages == PgFindByUserId(pg, userId, WARM_CACHE_LIMIT)
                IN  IF Len(messages) > 0
                    THEN /\ procs' = Call(p, [pr EXCEPT !.pc = "w_set", !.list = messages])
                         /\ ret' = [ret EXCEPT ![p] = NoRet]
                         /\ auth' = [auth EXCEPT ![p] = WarmCalled(@)]
                    ELSE /\ procs' = CallAndReturn(p)
                         /\ ret' = [ret EXCEPT ![p] = Return(p, [pr EXCEPT !.quiet = Alone(p)], "ok")]
                         /\ auth' = [auth EXCEPT ![p] = WarmSettled(@, "ok")]
    /\ UNCHANGED <<pg, pgNow, pgNextId, pgUp, redis, redisUp, appends, job,
                   created, fresh>>
    /\ UNCHANGED <<intervalId, timers, durableIds, overlap>>

\* await this.redis.setUserMessages(userId, messages)
WarmSet(p) ==
    /\ procs[p].op = "warm"
    /\ procs[p].pc = "w_set"
    /\ LET pr == procs[p]
       IN  /\ procs' = Step(p, Idle)
           /\ IF ~redisUp
              THEN /\ ret' = [ret EXCEPT ![p] = Return(p, [pr EXCEPT !.cacheErr = TRUE], "raised")]
                   /\ auth' = [auth EXCEPT ![p] = WarmSettled(@, "raised")]
                   /\ UNCHANGED <<redis, fresh>>
              ELSE /\ redis' = SetUserMessages(redis, pr.userId, pr.list)
                   /\ ret' = [ret EXCEPT ![p] = [Return(p, pr, "ok") EXCEPT !.list = pr.list]]
                   /\ auth' = [auth EXCEPT ![p] = WarmSettled(@, "ok")]
                   /\ fresh' = Written(pr.userId)
    /\ UNCHANGED <<pg, pgNow, pgNextId, pgUp, redisUp, appends, job, created>>
    /\ UNCHANGED <<intervalId, timers, durableIds, overlap>>

\* ------------------------------------------------------------- the stores
\* The cache store goes away: every call to it fails until it is back.
RedisOutage ==
    /\ redisUp
    /\ redisUp' = FALSE
    /\ UNCHANGED <<pg, pgNow, pgNextId, pgUp, redis, procs, ret, appends, job,
                   created, fresh>>
    /\ UNCHANGED <<intervalId, timers, durableIds, auth, overlap>>

RedisBack ==
    /\ ~redisUp
    /\ redisUp' = TRUE
    /\ UNCHANGED <<pg, pgNow, pgNextId, pgUp, redis, procs, ret, appends, job,
                   created, fresh>>
    /\ UNCHANGED <<intervalId, timers, durableIds, auth, overlap>>

\* The durable store goes away: every call to it fails until it is back.
PgOutage ==
    /\ pgUp
    /\ pgUp' = FALSE
    /\ UNCHANGED <<pg, pgNow, pgNextId, redis, redisUp, procs, ret, appends, job,
                   created, fresh>>
    /\ UNCHANGED <<intervalId, timers, durableIds, auth, overlap>>

PgBack ==
    /\ ~pgUp
    /\ pgUp' = TRUE
    /\ UNCHANGED <<pg, pgNow, pgNextId, redis, redisUp, procs, ret, appends, job,
                   created, fresh>>
    /\ UNCHANGED <<intervalId, timers, durableIds, auth, overlap>>

\* ------------------------------------------------------------ MessageSyncJob
\* The sequences that list each element of set S once.
Orders(S) ==
    {q \in [1..Cardinality(S) -> S] : \A i, j \in 1..Cardinality(S) : q[i] = q[j] => i = j}

\* The cached ids of userId that no durable row carries.
Unsynced(r, rows, userId) ==
    {m.id : m \in Range(GetUserMessages(r, userId))} \ {row.id : row \in rows}

\* The cycle goes on: it is alone as long as it finds the stores as it left them.
JobStep(j, pgAfter, redisAfter) ==
    [j EXCEPT !.alone = j.alone /\ j.world = <<pg, redis>>,
              !.world = IF j.alone /\ j.world = <<pg, redis>> THEN <<pgAfter, redisAfter>> ELSE <<>>]

\* The cycle ends.
JobDone(j) == [j EXCEPT !.pc = "done", !.keys = <<>>, !.expiringUsers = <<>>,
                        !.userId = "", !.newMessages = <<>>]

\* The cycle turns to its next user, or ends.
JobNextUser(j) ==
    IF j.expiringUsers = <<>> THEN JobDone(j)
    ELSE [j EXCEPT !.pc = "get", !.userId = Head(j.expiringUsers),
                   !.expiringUsers = Tail(j.expiringUsers), !.newMessages = <<>>,
                   !.attempted = @ \cup {Head(j.expiringUsers)}]

\* return expiringUsers: the scan is over.
JobScanned(j) ==
    JobNextUser([j EXCEPT !.scanned = TRUE, !.candidates = Range(j.expiringUsers)])

JobUserFailedAborts(j) ==
    JobDone([j EXCEPT !.failed = TRUE, !.failedUsers = @ \cup {j.userId}])

\* catch (error) { console.error(`Failed to sync user ${userId}`) }: on to the next user.
JobUserFailed(j) ==
    JobNextUser([j EXCEPT !.failed = TRUE, !.failedUsers = @ \cup {j.userId}])

\* syncMessages(): const keys = await this.client.keys(pattern)
BeginCycle(life) ==
    /\ job.pc \in {"idle", "done"}
    /\ procs' = [q \in Procs |-> [procs[q] EXCEPT !.quiet = FALSE]]
    /\ LET j == [NoJob EXCEPT !.cycles = job.cycles + 1,
                              !.life = life,
                              !.retry = job.failedUsers,
                              !.before = IF job.alone /\ ~job.failed /\ job.world = <<pg, redis>>
                                         THEN job.inserted ELSE {},
                              !.unsynced = [u \in Users |-> Unsynced(redis, pg, u)],
                              !.alone = TRUE,
                              !.world = <<pg, redis>>]
       IN  IF ~redisUp
           THEN job' = JobDone([j EXCEPT !.failed = TRUE])
           ELSE \E keys \in Orders({u \in Users : HasUserMessages(redis, u)}) :
                    job' = IF keys = <<>> THEN JobScanned(j)
                           ELSE [j EXCEPT !.pc = "ttl", !.keys = keys]
    /\ UNCHANGED <<pg, pgNow, pgNextId, pgUp, redis, redisUp, ret, appends,
                   created, fresh, durableIds, auth, overlap>>

\* triggerSync(): await this.syncMessages()
SyncKeys ==
    /\ BeginCycle(job.life)
    /\ UNCHANGED <<intervalId, timers>>

RunningNever == FALSE

\* if (this.intervalId): the job holds the handle of its timer
Running == intervalId # 0

ClearIntervalKeeps(ts, id) == ts

\* clearInterval(this.intervalId)
ClearInterval(ts, id) == {t \in ts : t.id # id}

\* start(): if (this.intervalId) return; this.syncMessages(); this.intervalId = setInterval(...)
Start ==
    IF Running
    THEN /\ job' = [job EXCEPT !.life = "start ignored"]
         /\ UNCHANGED <<pg, pgNow, pgNextId, pgUp, redis, redisUp, procs, ret, appends,
                        intervalId, timers, durableIds, auth, overlap, created, fresh>>
    ELSE /\ BeginCycle("started")
         /\ LET id == CHOOSE n \in 1..(Cardinality(timers) + 1) : \A t \in timers : t.id # n
            IN  /\ timers' = timers \cup {[id |-> id, elapsed |-> 0]}
                /\ intervalId' = id

\* stop(): if (this.intervalId) { clearInterval(this.intervalId); this.intervalId = null }
Stop ==
    /\ IF Running
       THEN /\ timers' = ClearInterval(timers, intervalId)
            /\ intervalId' = 0
            /\ job' = [job EXCEPT !.life = "stopped"]
       ELSE /\ job' = [job EXCEPT !.life = "stop ignored"]
            /\ UNCHANGED <<intervalId, timers>>
    /\ UNCHANGED <<pg, pgNow, pgNextId, pgUp, redis, redisUp, procs, ret, appends,
                   durableIds, auth, overlap, created, fresh>>

\* setInterval(() => { this.syncMessages() }, this.SYNC_INTERVAL): timer t is due
TimerFires(t) ==
    /\ t \in timers
    /\ t.elapsed = SYNC_INTERVAL
    /\ BeginCycle(job.life)
    /\ timers' = (timers \ {t}) \cup {[t EXCEPT !.elapsed = 0]}
    /\ UNCHANGED intervalId

\* const ttl = await this.client.ttl(key); if (ttl > 0 && ttl <= thresholdSeconds) push
SyncTtl ==
    /\ job.pc = "ttl"
    /\ LET u == Head(job.keys)
           j == JobStep(job, pg, redis)
       IN  IF ~redisUp
           THEN job' = JobDone([j EXCEPT !.failed = TRUE])
           ELSE LET k == [j EXCEPT !.keys = Tail(job.keys),
                                   !.ttlSeen[u] = GetMessagesTTL(redis, u),
                                   !.expiringUsers =
                                        IF Expiring(redis, u, TTL_THRESHOLD)
                                        THEN Append(job.expiringUsers, u)
                                        ELSE job.expiringUsers]
                IN  job' = IF k.keys # <<>> THEN k ELSE JobScanned(k)
    /\ UNCHANGED <<pg, pgNow, pgNextId, pgUp, redis, redisUp, procs, ret, appends,
                   created, fresh>>
    /\ UNCHANGED <<intervalId, timers, durableIds, auth, overlap>>

\* syncToPostgres: const cached = await this.redis.getUserMessages(userId)
SyncGet ==
    /\ job.pc = "get"
    /\ LET j == JobStep(job, pg, redis)
           cached == GetUserMessages(redis, job.userId)
       IN  IF ~redisUp
           THEN job' = JobUserFailed(j)
           ELSE IF ~HasUserMessages(redis, job.userId) \/ Len(cached) = 0
           THEN job' = JobNextUser(j)
           ELSE job' = [j EXCEPT !.pc = "existing", !.newMessages = cached]
    /\ UNCHANGED <<pg, pgNow, pgNextId, pgUp, redis, redisUp, procs, ret, appends,
                   created, fresh>>
    /\ UNCHANGED <<intervalId, timers, durableIds, auth, overlap>>

\* cached.filter((msg) => !existingIds.has(msg.id))
NewMessages(cached, existing) ==
    LET existingIds == {m.id : m \in Range(existing)}
    IN  SelectSeq(cached, LAMBDA msg : msg.id \notin existingIds)

\* const existing = await this.pgRepo.findByUserId(userId, 1000)
SyncExisting ==
    /\ job.pc = "existing"
    /\ LET j == JobStep(job, pg, redis)
       IN  IF ~pgUp
           THEN job' = JobUserFailed(j)
           ELSE LET new == NewMessages(job.newMessages,
                                       PgFindByUserId(pg, job.userId, SYNC_EXISTING_LIMIT))
                IN  job' = IF new = <<>> THEN JobNextUser(j)
                           ELSE [j EXCEPT !.pc = "insert", !.newMessages = new]
    /\ UNCHANGED <<pg, pgNow, pgNextId, pgUp, redis, redisUp, procs, ret, appends,
                   created, fresh>>
    /\ UNCHANGED <<intervalId, timers, durableIds, auth, overlap>>

\* await this.pgRepo.create({ id: msg.id, ... }), its failure logged and passed over
SyncInsert ==
    /\ job.pc = "insert"
    /\ LET msg == Head(job.newMessages)
           values == [userId |-> msg.userId, type |-> msg.type, content |-> msg.content]
           fails == ~pgUp \/ PgHasId(pg, msg.id)
           pgAfter == IF fails THEN pg ELSE PgCreate(pg, values, msg.id, pgNow + 1)
           j == [JobStep(job, pgAfter, redis) EXCEPT
                    !.newMessages = Tail(job.newMessages),
                    !.failed = job.failed \/ fails,
                    !.failedUsers = IF fails THEN @ \cup {job.userId} ELSE @,
                    !.inserted = IF fails THEN @ ELSE @ \cup {msg.id}]
       IN  /\ pg' = pgAfter
           /\ pgNow' = IF fails THEN pgNow ELSE pgNow + 1
           /\ fresh' = IF fails THEN fresh ELSE Written(msg.userId)
           /\ job' = IF j.newMessages # <<>> THEN j ELSE JobNextUser(j)
    /\ UNCHANGED <<pgNextId, pgUp, redis, redisUp, procs, ret, appends, created>>
    /\ durableIds' = durableIds \cup {r.id : r \in pg'}
    /\ UNCHANGED <<intervalId, timers, auth, overlap>>

\* ------------------------------------------------- a second, overlapping cycle
\* syncMessages() entered again (triggerSync, or the next tick of the timer) while
\* the cycle of job has not finished: keys(pattern) of its scan
OverlapBegin ==
    /\ job.pc \notin {"idle", "done"}
    /\ overlap.pc \in {"idle", "done"}
    /\ procs' = [q \in Procs |-> [procs[q] EXCEPT !.quiet = FALSE]]
    /\ LET j == [NoJob EXCEPT !.cycles = overlap.cycles + 1,
                              !.unsynced = [u \in Users |-> Unsynced(redis, pg, u)],
                              !.world = <<pg, redis>>]
       IN  IF ~redisUp
           THEN overlap' = JobDone([j EXCEPT !.failed = TRUE])
           ELSE \E keys \in Orders({u \in Users : HasUserMessages(redis, u)}) :
                    overlap' = IF keys = <<>> THEN JobScanned(j)
                               ELSE [j EXCEPT !.pc = "ttl", !.keys = keys]
    /\ UNCHANGED <<pg, pgNow, pgNextId, pgUp, redis, redisUp, ret, appends, job,
                   intervalId, timers, durableIds, auth, created, fresh>>

\* const ttl = await this.client.ttl(key), in the second cycle
OverlapTtl ==
    /\ overlap.pc = "ttl"
    /\ LET u == Head(overlap.keys)
       IN  IF ~redisUp
           THEN overlap' = JobDone([overlap EXCEPT !.failed = TRUE])
           ELSE LET k == [overlap EXCEPT !.keys = Tail(overlap.keys),
                                         !.ttlSeen[u] = GetMessagesTTL(redis, u),
                                         !.expiringUsers =
                                            IF Expiring(redis, u, TTL_THRESHOLD)
                                            THEN Append(overlap.expiringUsers, u)
                                            ELSE overlap.expiringUsers]
                IN  overlap' = IF k.keys # <<>> THEN k ELSE JobScanned(k)
    /\ UNCHANGED <<pg, pgNow, pgNextId, pgUp, redis, redisUp, procs, ret, appends, job,
                   intervalId, timers, durableIds, auth, created, fresh>>

\* syncToPostgres: const cached = await this.redis.getUserMessages(userId), in the
\* second cycle
OverlapGet ==
    /\ overlap.pc = "get"
    /\ LET cached == GetUserMessages(redis, overlap.userId)
       IN  IF ~redisUp
           THEN overlap' = JobUserFailed(overlap)
           ELSE IF ~HasUserMessages(redis, overlap.userId) \/ Len(cached) = 0
           THEN overlap' = JobNextUser(overlap)
           ELSE overlap' = [overlap EXCEPT !.pc = "existing", !.newMessages = cached]
    /\ UNCHANGED <<pg, pgNow, pgNextId, pgUp, redis, redisUp, procs, ret, appends, job,
                   intervalId, timers, durableIds, auth, created, fresh>>

\* const existing = await this.pgRepo.findByUserId(userId, 1000), in the second cycle
OverlapExisting ==
    /\ overlap.pc = "existing"
    /\ IF ~pgUp
       THEN overlap' = JobUserFailed(overlap)
       ELSE LET new == NewMessages(overlap.newMessages,
                                   PgFindByUserId(pg, overlap.userId, SYNC_EXISTING_LIMIT))
            IN  overlap' = IF new = <<>> THEN JobNextUser(overlap)
                           ELSE [overlap EXCEPT !.pc = "insert", !.newMessages = new]
    /\ UNCHANGED <<pg, pgNow, pgNextId, pgUp, redis, redisUp, procs, ret, appends, job,
                   intervalId, timers, durableIds, auth, created, fresh>>

\* await this.pgRepo.create({ id: msg.id, ... }), its failure logged and passed
\* over, in the second cycle
OverlapInsert ==
    /\ overlap.pc = "insert"
    /\ LET msg == Head(overlap.newMessages)
           values == [userId |-> msg.userId, type |-> msg.type, content |-> msg.content]
           fails == ~pgUp \/ PgHasId(pg, msg.id)
           j == [overlap EXCEPT
                    !.newMessages = Tail(overlap.newMessages),
                    !.failed = overlap.failed \/ fails,
                    !.failedUsers = IF fails THEN @ \cup {overlap.userId} ELSE @,
                    !.inserted = IF fails THEN @ ELSE @ \cup {msg.id}]
       IN  /\ pg' = IF fails THEN pg ELSE PgCreate(pg, values, msg.id, pgNow + 1)
           /\ pgNow' = IF fails THEN pgNow ELSE pgNow + 1
           /\ fresh' = IF fails THEN fresh ELSE Written(msg.userId)
           /\ overlap' = IF j.newMessages # <<>> THEN j ELSE JobNextUser(j)
    /\ UNCHANGED <<pgNextId, pgUp, redis, redisUp, procs, ret, appends, job, created>>
    /\ durableIds' = durableIds \cup {r.id : r \in pg'}
    /\ UNCHANGED <<intervalId, timers, auth>>

\* ------------------------------------------------------------------- time
\* d seconds pass: the keys age and expire, and no interval timer is left behind
\* its due time.
Tick(d) ==
    /\ (\E u \in Users : redis[u] # Null) \/ timers # {}
    /\ \A t \in timers : t.elapsed + d <= SYNC_INTERVAL
    /\ timers' = {[t EXCEPT !.elapsed = @ + d] : t \in timers}
    /\ redis' = Expire(redis, d)
    /\ fresh' = [u \in Users |-> IF redis'[u] = Null THEN Null ELSE fresh[u]]
    /\ UNCHANGED <<pg, pgNow, pgNextId, pgUp, redisUp, procs, ret, appends, job,
                   intervalId, durableIds, auth, overlap, created>>

\* ---------------------------------------------------------- specifications
\* What the handlers are called with.
OneInput == [type |-> "user", content |-> "hi"]

Creates(I, n) ==
    /\ pgNextId <= n
    /\ \E p \in Procs, in \in I, givenId \in {0} \cup {r.id : r \in pg} :
            Create(p, "u1", in, givenId)

Appends ==
    \/ \E a \in appends : AddUserMessageGet(a)
    \/ \E a \in appends : AddUserMessageSet(a)

Finds ==
    \/ \E p \in Procs, limit \in Limits : FindGet(p, "u1", limit)
    \/ \E p \in Procs : FindRefresh(p)
    \/ \E p \in Procs : FindPgRead(p)
    \/ \E p \in Procs : FindPopulate(p)

Updates ==
    \/ \E p \in Procs, id \in 1..MaxMsgs, updates \in UpdateInputs : UpdatePg(p, id, updates)
    \/ \E p \in Procs : UpdateGet(p)
    \/ \E p \in Procs : UpdateSet(p)

Deletes(n) ==
    \/ \E p \in Procs, id \in 1..n : DeleteFind(p, id)
    \/ \E p \in Procs : DeleteGet(p)
    \/ \E p \in Procs : DeleteSet(p)
    \/ \E p \in Procs : DeletePg(p)

Warms ==
    \/ \E p \in Procs : WarmRead(p, "u1")
    \/ \E p \in Procs : WarmSet(p)

Syncs ==
    \/ job.cycles < MaxCycles /\ SyncKeys
    \/ SyncTtl
    \/ SyncGet
    \/ SyncExisting
    \/ SyncInsert

Ticks == \E d \in TickSteps : Tick(d)

\* The repository over both stores, both available.
Next ==
    \/ Creates({OneInput}, MaxMsgs)
    \/ Appends
    \/ Finds
    \/ Updates
    \/ Deletes(MaxMsgs)

Spec == Init /\ [][Next]_vars

\* The repository while the cache store fails every call.
InitOutage ==
    /\ pg = {}
    /\ pgNow = 0
    /\ pgNextId = 1
    /\ pgUp = TRUE
    /\ redis = [u \in Users |-> Null]
    /\ redisUp = FALSE
    /\ procs = [p \in Procs |-> Idle]
    /\ ret = [p \in Procs |-> NoRet]
    /\ appends = {}
    /\ job = NoJob
    /\ intervalId = 0
    /\ timers = {}
    /\ durableIds = {r.id : r \in pg}
    /\ auth = [p \in Procs |-> NoAuth]
    /\ overlap = NoJob
    /\ created = {}
    /\ fresh = [u \in Users |-> Null]

NextOutage ==
    \/ Creates(Inputs, MaxMsgs)
    \/ \E a \in appends : AddUserMessageGet(a)
    \/ \E p \in Procs, limit \in Limits : FindGet(p, "u1", limit)
    \/ \E p \in Procs : FindFallback(p)
    \/ \E p \in Procs, id \in 1..MaxMsgs : DeleteFind(p, id)
    \/ \E p \in Procs : DeleteGet(p)
    \/ \E p \in Procs : DeletePg(p)

SpecOutage == InitOutage /\ [][NextOutage]_vars

\* The repository while either store may go away and come back.
NextFaults ==
    \/ Creates({OneInput}, MaxMsgs)
    \/ Appends
    \/ Finds
    \/ \E p \in Procs : FindFallback(p)
    \/ Updates
    \/ Deletes(MaxMsgs)
    \/ RedisOutage
    \/ RedisBack
    \/ PgOutage
    \/ PgBack

SpecFaults == Init /\ [][NextFaults]_vars

\* Reads and writes while the cache entries age.
NextTime ==
    \/ Creates({OneInput}, MaxMsgs)
    \/ Appends
    \/ Finds
    \/ Ticks

SpecTime == Init /\ [][NextTime]_vars

\* The sync cycle beside creates, deletes and the ageing of the cache entries.
NextSync ==
    \/ Creates({OneInput}, MaxMsgs)
    \/ Appends
    \/ Deletes(MaxMsgs)
    \/ Ticks
    \/ Syncs

SpecSync == Init /\ [][NextSync]_vars

\* warmCache for a user with about as many durable messages as the window holds, or more.
WarmSizes == (WARM_CACHE_LIMIT - WarmExtra)..(WARM_CACHE_LIMIT + WarmExtra) \cup {150}

InitWarm ==
    /\ \E n \in WarmSizes :
        /\ pg = {PgRow([userId |-> "u1", type |-> OneInput.type, content |-> OneInput.content], i, i)
                    : i \in 1..n}
        /\ pgNow = n
        /\ pgNextId = n + 1
    /\ pgUp = TRUE
    /\ redis = [u \in Users |-> Null]
    /\ redisUp = TRUE
    /\ procs = [p \in Procs |-> Idle]
    /\ ret = [p \in Procs |-> NoRet]
    /\ appends = {}
    /\ job = NoJob
    /\ intervalId = 0
    /\ timers = {}
    /\ durableIds = {r.id : r \in pg}
    /\ auth = [p \in Procs |-> NoAuth]
    /\ overlap = NoJob
    /\ created = {}
    /\ fresh = [u \in Users |-> Null]

NextWarm ==
    \/ Warms
    \/ Ticks

SpecWarm == InitWarm /\ [][NextWarm]_vars

\* The job as servicesPlugin leaves it: started on an empty cache, its first cycle
\* over, the interval timer armed.
InitSchedule ==
    /\ pg = {}
    /\ pgNow = 0
    /\ pgNextId = 1
    /\ pgUp = TRUE
    /\ redis = [u \in Users |-> Null]
    /\ redisUp = TRUE
    /\ procs = [p \in Procs |-> Idle]
    /\ ret = [p \in Procs |-> NoRet]
    /\ appends = {}
    /\ job = [NoJob EXCEPT !.pc = "done", !.cycles = 1, !.life = "started",
                           !.alone = TRUE, !.world = <<pg, redis>>]
    /\ intervalId = 1
    /\ timers = {[id |-> 1, elapsed |-> 0]}
    /\ durableIds = {}
    /\ auth = [p \in Procs |-> NoAuth]
    /\ overlap = NoJob
    /\ created = {}
    /\ fresh = [u \in Users |-> Null]

\* Nothing is in flight: no handler, no background append, no sync cycle.
Quiescent ==
    /\ \A p \in Procs : procs[p].op = "idle"
    /\ appends = {}
    /\ job.pc \in {"idle", "done"}

\* The clock is observed when a timer is due and one second after it has fired;
\* while anything is in flight no more than a second passes.
ScheduleTicks ==
    \E d \in {1, SYNC_INTERVAL - 1} :
        /\ d > 1 => Quiescent
        /\ \A t \in timers : t.elapsed + d \in {1, SYNC_INTERVAL}
        /\ Tick(d)

ScheduledCycles ==
    \/ job.cycles < MaxTicks /\ \E t \in timers : TimerFires(t)
    \/ SyncTtl
    \/ SyncGet
    \/ SyncExisting
    \/ SyncInsert

\* The running job beside one user's create and delete.
NextSchedule ==
    \/ Creates({OneInput}, 1)
    \/ Appends
    \/ Deletes(1)
    \/ ScheduleTicks
    \/ ScheduledCycles

SpecSchedule == InitSchedule /\ [][NextSchedule]_vars

\* The running job while the durable store may go away and come back.
NextRetry ==
    \/ Creates({OneInput}, 1)
    \/ Appends
    \/ Deletes(1)
    \/ ScheduleTicks
    \/ ScheduledCycles
    \/ PgOutage
    \/ PgBack

SpecRetry == InitSchedule /\ [][NextRetry]_vars

CreatesFor(U, n) ==
    /\ pgNextId <= n
    /\ \E p \in Procs, userId \in U : Create(p, userId, OneInput, 0)

\* The sync cycle over two users' entries while the durable store may go away and
\* come back.
NextBatch ==
    \/ CreatesFor(Users, MaxMsgs)
    \/ Appends
    \/ job.pc = "idle" /\ Deletes(1)
    \/ Ticks
    \/ Syncs
    \/ PgOutage
    \/ PgBack

SpecBatch == Init /\ [][NextBatch]_vars

\* start() and stop() called at any time on a job that begins stopped, beside one
\* user's create and delete; the clock is observed whenever a timer is due.
NextLifecycle ==
    \/ (Running \/ job.cycles < MaxTicks) /\ Start
    \/ Stop
    \/ Creates({OneInput}, 1)
    \/ Appends
    \/ Deletes(1)
    \/ Tick(SYNC_INTERVAL)
    \/ ScheduledCycles

SpecLifecycle == Init /\ [][NextLifecycle]_vars

\* A cycle that has begun goes on: each awaited store call resolves or rejects.
SpecLifecycleFair ==
    SpecLifecycle /\ WF_vars(SyncTtl \/ SyncGet \/ SyncExisting \/ SyncInsert)

\* The three authentication routes beside creates, while either store may go away
\* and come back.
NextAuth ==
    \/ \E p \in Procs, result \in AuthResults, hasRepo \in BOOLEAN : AuthRoute(p, result, hasRepo)
    \/ \E p \in Procs : auth[p].warm = "pending" /\ WarmRead(p, auth[p].result.user.id)
    \/ \E p \in Procs : WarmSet(p)
    \/ CreatesFor(Users, MaxMsgs)
    \/ Appends
    \/ RedisOutage
    \/ RedisBack
    \/ PgOutage
    \/ PgBack

SpecAuth == Init /\ [][NextAuth]_vars

\* warmCache and create for a user with about as many durable messages as the
\* window holds.
NextWarmWrites ==
    \/ Warms
    \/ /\ pgNextId <= WARM_CACHE_LIMIT + 1
       /\ appends = {}
       /\ \E p \in Procs : Create(p, "u1", OneInput, 0)
    \/ Appends

SpecWarmWrites == InitWarm /\ [][NextWarmWrites]_vars

\* Every handler of the repository, warmCache included, while either store may go
\* away and come back.
NextCopies ==
    \/ Creates({OneInput}, MaxMsgs)
    \/ Appends
    \/ Finds
    \/ \E p \in Procs : FindFallback(p)
    \/ Updates
    \/ Deletes(MaxMsgs)
    \/ Warms
    \/ RedisOutage
    \/ RedisBack
    \/ PgOutage
    \/ PgBack

SpecCopies == Init /\ [][NextCopies]_vars

\* Reads and writes while the cache entries age, where nothing that can go on waits
\* for ever: pending appends and reads in flight complete, the clock advances, and
\* the user keeps reading with every limit.
SpecTimeFair ==
    /\ SpecTime
    /\ WF_vars(Appends)
    /\ WF_vars(Ticks)
    /\ WF_vars(\E p \in Procs : FindRefresh(p) \/ FindPgRead(p) \/ FindPopulate(p))
    /\ \A limit \in Limits : SF_vars(\E p \in Procs : FindGet(p, "u1", limit))

\* Reads against a cache store that may fail a call or leave it unanswered; a read
\* whose store call has been answered goes on.
NextStall ==
    \/ Creates({OneInput}, MaxMsgs)
    \/ Appends
    \/ Finds
    \/ \E p \in Procs : FindFallback(p)
    \/ \E p \in Procs, limit \in Limits : FindGetStalls(p, "u1", limit)
    \/ \E p \in Procs : FindCacheCallStalls(p)
    \/ RedisOutage
    \/ RedisBack

SpecStall ==
    /\ Init /\ [][NextStall]_vars
    /\ \A p \in Procs :
            WF_vars(FindRefresh(p) \/ FindPgRead(p) \/ FindPopulate(p) \/ FindFallback(p))

\* warmCache beside creates and deletes of the same user.
NextWarmStale ==
    \/ Creates({OneInput}, MaxMsgs)
    \/ Appends
    \/ Deletes(MaxMsgs)
    \/ Warms

SpecWarmStale == Init /\ [][NextWarmStale]_vars

\* Deletes of existing and of unknown ids for a user with up to three messages.
NextDelete ==
    \/ Creates({OneInput}, MaxMsgs + 1)
    \/ Appends
    \/ Deletes(MaxMsgs + 1)

SpecDelete == Init /\ [][NextDelete]_vars

Overlaps ==
    \/ overlap.cycles < MaxCycles /\ OverlapBegin
    \/ OverlapTtl
    \/ OverlapGet
    \/ OverlapExisting
    \/ OverlapInsert

\* Two sync cycles at a time beside one message's create and delete and the ageing
\* of the cache entry.
NextOverlap ==
    \/ Creates({OneInput}, 1)
    \/ Appends
    \/ Deletes(1)
    \/ Ticks
    \/ Syncs
    \/ Overlaps

SpecOverlap == Init /\ [][NextOverlap]_vars

\* A user whose durable messages are about as many as syncToPostgres reads back, or
\* more, all of them created within the cache's TTL of one another and so all still
\* cached.
SyncSizes == (SYNC_EXISTING_LIMIT - SyncExtra)..(SYNC_EXISTING_LIMIT + SyncExtra)

InitSyncLimit ==
    /\ \E n \in SyncSizes :
        LET row(i) == PgRow([userId |-> "u1", type |-> OneInput.type,
                             content |-> OneInput.content], i, i)
        IN  /\ pg = {row(i) : i \in 1..n}
            /\ pgNow = n
            /\ pgNextId = n + 1
            /\ redis = SetUserMessages([u \in Users |-> Null], "u1", [i \in 1..n |-> row(i)])
    /\ pgUp = TRUE
    /\ redisUp = TRUE
    /\ procs = [p \in Procs |-> Idle]
    /\ ret = [p \in Procs |-> NoRet]
    /\ appends = {}
    /\ job = NoJob
    /\ intervalId = 0
    /\ timers = {}
    /\ durableIds = {r.id : r \in pg}
    /\ auth = [p \in Procs |-> NoAuth]
    /\ overlap = NoJob
    /\ created = {}
    /\ fresh = [u \in Users |-> Null]

\* That user's creates and the sync cycle over the entry as it ages.
NextSyncLimit ==
    \/ /\ pgNextId <= SYNC_EXISTING_LIMIT + SyncExtra
       /\ appends = {}
       /\ \E p \in Procs : Create(p, "u1", OneInput, 0)
    \/ Appends
    \/ Ticks
    \/ Syncs

SpecSyncLimit == InitSyncLimit /\ [][NextSyncLimit]_vars

\* A user whose earlier messages are durable and whose cache entry has expired:
\* the stores twenty minutes after the last of n creates.
InitCold ==
    /\ \E n \in 1..MaxMsgs :
        /\ pg = {PgRow([userId |-> "u1", type |-> OneInput.type, content |-> OneInput.content], i, i)
                    : i \in 1..n}
        /\ pgNow = n
        /\ pgNextId = n + 1
    /\ pgUp = TRUE
    /\ redis = [u \in Users |-> Null]
    /\ redisUp = TRUE
    /\ procs = [p \in Procs |-> Idle]
    /\ ret = [p \in Procs |-> NoRet]
    /\ appends = {}
    /\ job = NoJob
    /\ intervalId = 0
    /\ timers = {}
    /\ durableIds = {r.id : r \in pg}
    /\ auth = [p \in Procs |-> NoAuth]
    /\ overlap = NoJob
    /\ created = {}
    /\ fresh = [u \in Users |-> Null]

\* That user writes and reads again; no entry expires meanwhile.
NextCold ==
    \/ Creates({OneInput}, MaxMsgs + 1)
    \/ Appends
    \/ Finds

SpecCold == InitCold /\ [][NextCold]_vars

\* What ChatService.regenerateMessage passes to update: the new content and
\* timestamp: new Date(), a time later than that of any insert so far.
RegenerateInputs(now) == {[content |-> "edited", timestamp |-> now]}

\* Messages are created and then edited or regenerated.
NextRegenerate ==
    \/ Creates({OneInput}, MaxMsgs)
    \/ Appends
    \/ \E p \in Procs, id \in 1..MaxMsgs, updates \in UpdateInputs \cup RegenerateInputs(pgNow + 1) :
            UpdatePg(p, id, updates)
    \/ \E p \in Procs : UpdateGet(p)
    \/ \E p \in Procs : UpdateSet(p)

SpecRegenerate == Init /\ [][NextRegenerate]_vars

\* Every handler of the repository for two users, beside one sync cycle that finds
\* an entry due: the entries age while nothing is in flight, and the handlers in
\* flight when the cycle begins go on beside it, but no new one is called.
NextOwners ==
    \/ job.pc = "idle" /\ CreatesFor(Users, MaxMsgs)
    \/ Appends
    \/ job.pc = "idle" /\ \E p \in Procs, userId \in Users : FindGet(p, userId, MaxMsgs)
    \/ \E p \in Procs : FindRefresh(p)
    \/ \E p \in Procs : FindPgRead(p)
    \/ \E p \in Procs : FindPopulate(p)
    \/ /\ job.pc = "idle"
       /\ \E p \in Procs, id \in 1..MaxMsgs, updates \in UpdateInputs : UpdatePg(p, id, updates)
    \/ \E p \in Procs : UpdateGet(p)
    \/ \E p \in Procs : UpdateSet(p)
    \/ job.pc = "idle" /\ \E p \in Procs, id \in 1..MaxMsgs : DeleteFind(p, id)
    \/ \E p \in Procs : DeleteGet(p)
    \/ \E p \in Procs : DeleteSet(p)
    \/ \E p \in Procs : DeletePg(p)
    \/ job.pc = "idle" /\ \E p \in Procs, userId \in Users : WarmRead(p, userId)
    \/ \E p \in Procs : WarmSet(p)
    \/ /\ \A p \in Procs : procs[p].op = "idle"
       /\ appends = {}
       /\ job.pc = "idle"
       /\ Tick(MESSAGE_TTL - TTL_THRESHOLD)
    \/ /\ job.pc = "idle"
       /\ \E u \in Users : Expiring(redis, u, TTL_THRESHOLD)
       /\ SyncKeys
    \/ SyncTtl
    \/ SyncGet
    \/ SyncExisting
    \/ SyncInsert

SpecOwners == Init /\ [][NextOwners]_vars

\* ------------------------------------------------------------------ claims
\* list is the limit most recent rows of userId, oldest first: all of them when
\* there are no more than limit, and otherwise limit rows none of which is older
\* than a row left out.
IsMostRecent(list, rows, userId, limit) ==
    LET mine == {r \in rows : r.userId = userId}
    IN  /\ Len(list) = Min(limit, Cardinality(mine))
        /\ \A i \in 1..Len(list) : list[i] \in mine
        /\ \A i, j \in 1..Len(list) : i < j => list[i].timestamp < list[j].timestamp
        /\ \A r \in mine \ Range(list) : \A i \in 1..Len(list) : r.timestamp < list[i].timestamp

\* findByUserId of slot p returns or raises in this step.
FindReturns(p) == procs[p].op = "find" /\ procs'[p].op = "idle"

\* C1: once create(m) has returned, and as long as no update or delete of m.id has
\* been issued, findById(m.id) returns a message with m's content and type,
\* whether the cache append succeeded, failed or is still pending.
C1_CreatedIsFoundById ==
    \A m \in created :
        /\ PgFindById(pg, m.id) # Null
        /\ PgFindById(pg, m.id).content = m.content
        /\ PgFindById(pg, m.id).type = m.type

\* A created message is found by id although its cache append has failed: the
\* cache holds nothing for its owner and no append is pending.
C1_Witness ==
    \E m \in created :
        /\ appends = {}
        /\ ~HasUserMessages(redis, m.userId)
        /\ PgFindById(pg, m.id) = m

\* C2: with every cache operation failing, findByUserId(U, limit) returns the limit
\* most recent durable messages of U, oldest first, and create(m) returns
\* successfully with m retrievable through findById.
C2_OutageFallsBackToDurable ==
    [][\A p \in Procs :
        /\ FindReturns(p) =>
              /\ ret'[p].outcome = "ok"
              /\ ret'[p].cacheErr
              /\ IsMostRecent(ret'[p].list, pg, ret'[p].userId, ret'[p].limit)
        /\ (ret'[p] # ret[p] /\ ret'[p].op = "create" /\ ~ret'[p].pgErr) =>
              /\ ret'[p].outcome = "ok"
              /\ PgFindById(pg', ret'[p].id) = ret'[p].row
              /\ \E in \in Inputs : /\ ret'[p].row.type = in.type
                                    /\ ret'[p].row.content = in.content]_vars

\* During the outage a read returns limit messages out of more durable ones.
C2_Witness ==
    \E p \in Procs :
        /\ ~redisUp
        /\ ret[p].op = "find"
        /\ ret[p].outcome = "ok"
        /\ ret[p].cacheErr
        /\ Len(ret[p].list) = ret[p].limit
        /\ Cardinality({r \in pg : r.userId = ret[p].userId}) > ret[p].limit
        /\ \E m \in created : PgFindById(pg, m.id) = m

\* C3: no cache failure is surfaced to the caller: an operation in which a cache
\* call failed and every durable call succeeded returns its normal result.
C3_CacheFailureNeverSurfaces ==
    \A p \in Procs :
        (ret[p].outcome # "" /\ ret[p].cacheErr /\ ~ret[p].pgErr) => ret[p].outcome = "ok"

\* C4: a failed durable call is raised to the caller and not issued a second time:
\* one findByUserId issues at most one durable read.
C4_NoDurableRetry ==
    \A p \in Procs :
        ret[p].op = "find" =>
            /\ ret[p].pgReads <= 1
            /\ ret[p].pgErr => ret[p].outcome = "raised"

\* C5: a findByUserId that misses the cache and finds durable messages performs one
\* durable read and leaves a cache entry holding exactly the list it returns; a
\* findByUserId with the same limit, called while that entry stands with nothing
\* written for the user since, performs no durable read and returns the same list.
C5_MissPopulatesThenHit ==
    [][\A p \in Procs :
        FindReturns(p) =>
            /\ (procs[p].pc = "populate" /\ ret'[p].outcome = "ok") =>
                  /\ ret'[p].pgReads = 1
                  /\ HasUserMessages(redis', ret'[p].userId)
                  /\ GetUserMessages(redis', ret'[p].userId) = ret'[p].list
                  /\ ret'[p].list # <<>>
            /\ ret'[p].second =>
                  /\ ret'[p].pgReads = 0
                  /\ ret'[p].list = fresh[ret'[p].userId].list]_vars

\* A second read of a populated entry has returned.
C5_Witness ==
    \E p \in Procs :
        /\ ret[p].op = "find"
        /\ ret[p].second
        /\ ret[p].hit
        /\ ret[p].list # <<>>
        /\ fresh[ret[p].userId] # Null
        /\ fresh[ret[p].userId].list = ret[p].list

\* C6: after any findByUserId served from the cache the key's remaining
\* TTL is MESSAGE_TTL.
C6_HitLeavesFullTTL ==
    [][\A p \in Procs :
        (FindReturns(p) /\ ret'[p].hit) =>
            GetMessagesTTL(redis', ret'[p].userId) = MESSAGE_TTL]_vars

\* A sync cycle ends in this step; no store call of it failed and nothing else
\* wrote to a store while it ran.
CycleEnds == job' # job /\ job'.pc = "done" /\ job'.alone /\ ~job'.failed

\* The users whose key the scan of the cycle saw with 1 to TTL_THRESHOLD seconds left.
SeenExpiring(j) == {u \in Users : j.ttlSeen[u] >= 1 /\ j.ttlSeen[u] <= TTL_THRESHOLD}

C8_WarmCacheKeepsWindow ==
    [][\A p \in Procs :
        (procs[p].op = "warm" /\ procs'[p].op = "idle" /\ ret'[p].outcome = "ok"
            /\ procs[p].pc = "w_set") =>
            /\ HasUserMessages(redis', ret'[p].userId)
            /\ IsMostRecent(GetUserMessages(redis', ret'[p].userId), pg,
                            ret'[p].userId, WARM_CACHE_LIMIT)
            /\ GetMessagesTTL(redis', ret'[p].userId) = MESSAGE_TTL]_vars

\* warmCache has returned for a user with 150 durable messages and the cached
\* list has WARM_CACHE_LIMIT entries.
C8_Witness ==
    \E p \in Procs :
        /\ ret[p].op = "warm"
        /\ ret[p].outcome = "ok"
        /\ Cardinality({r \in pg : r.userId = ret[p].userId}) = 150
        /\ Len(GetUserMessages(redis, ret[p].userId)) = WARM_CACHE_LIMIT
        /\ GetMessagesTTL(redis, ret[p].userId) = MESSAGE_TTL

\* The durable rows that carry the ids of list, in the order of list.
RowsOf(list, rows) == [i \in 1..Len(list) |-> PgFindById(rows, list[i].id)]

\* C9: findByUserId(U, limit), called while nothing else is in flight, returns the
\* last limit of U's existing (created and not deleted) messages in chronological
\* order.
C9_FindReturnsLastExisting ==
    [][\A p \in Procs :
        (FindReturns(p) /\ ret'[p].outcome = "ok" /\ ret'[p].quiet) =>
            IsMostRecent(RowsOf(ret'[p].list, pg), pg, ret'[p].userId, ret'[p].limit)]_vars

\* C10: every list findByUserId returns is ordered by timestamp ascending and has
\* at most limit entries.
C10_FindReturnsAscending ==
    \A p \in Procs :
        (ret[p].op = "find" /\ ret[p].outcome = "ok") =>
            /\ Len(ret[p].list) <= ret[p].limit
            /\ \A i, j \in 1..Len(ret[p].list) :
                    i < j => ret[p].list[i].timestamp <= ret[p].list[j].timestamp

\* create of slot p returns or raises in this step.
CreateReturns(p) == ret'[p] # ret[p] /\ ret'[p].op = "create"

AppendSteps(a) == a \in appends /\ a \notin appends'

\* C12: when two creates for one user have both succeeded, the durable store
\* holds both messages in every interleaving of their cache appends, and no step
\* of a cache append removes or alters a durable row.
C12_AppendsNeverTouchDurable ==
    [][/\ (\E a \in appends : AppendSteps(a)) => pg' = pg
       /\ \A m \in created' : m \in pg']_vars

\* Two creates for one user have succeeded, their appends have both finished,
\* both rows are durable and the cached list holds only one of them.
C12_Witness ==
    /\ Cardinality(created) = 2
    /\ \A m \in created : m \in pg /\ m.userId = "u1"
    /\ appends = {}
    /\ \A p \in Procs : procs[p].op = "idle" /\ ret[p].op = "create" /\ ret[p].outcome = "ok"
    /\ Len(GetUserMessages(redis, "u1")) = 1
    /\ GetUserMessages(redis, "u1")[1] \in created

\* C13: while the job is running and both stores are available, every id in a
\* cached list that the durable store lacks is inserted before the entry is
\* evicted: no entry expires while it holds such an id.
C13_NoCachedMessageLostByEviction ==
    [][\A u \in Users :
        (/\ HasUserMessages(redis, u)
         /\ ~HasUserMessages(redis', u)
         /\ timers # {} /\ pgUp /\ redisUp) =>
            Unsynced(redis, pg, u) = {}]_vars

\* C14: a user whose reconciliation failed during one tick is selected as a
\* candidate again by the next scheduled tick, one interval later.
C14_FailedUserIsCandidateAgain ==
    job.scanned => job.retry \subseteq job.candidates

\* C15: within one sync cycle, scheduled or started through triggerSync, a failure
\* of syncToPostgres for one expiring user does not end the cycle: syncToPostgres
\* is called for the candidates one after the other and, when the cycle is over,
\* has been called for every one of them.
C15_FailureDoesNotAbortBatch ==
    /\ job.attempted \subseteq job.candidates
    /\ (job.pc \in {"get", "existing", "insert"}) =>
            job.candidates = job.attempted \cup Range(job.expiringUsers)
    /\ (job.pc = "done" /\ job.scanned) => job.attempted = job.candidates

\* A cycle with two candidates is over: syncToPostgres failed for both, so the
\* second was processed after the first had failed.
C15_Witness ==
    /\ job.pc = "done"
    /\ job.scanned
    /\ Cardinality(job.candidates) = 2
    /\ job.failedUsers = job.candidates
    /\ job.attempted = job.candidates
    /\ job.inserted = {}

\* C16: after any sequence of start() and stop() calls at most one periodic timer
\* is active, and it is the one the job holds the handle of; a start() on a running
\* job adds no timer and begins no sync cycle.
C16_AtMostOneTimer ==
    [][ /\ Cardinality(timers') <= 1
        /\ \A t \in timers' : t.id = intervalId'
        /\ (job'.life = "start ignored" /\ job.life # "start ignored") =>
                /\ timers' = timers
                /\ intervalId' = intervalId
                /\ job' = [job EXCEPT !.life = "start ignored"] ]_vars

\* start() was called on a running job whose timer has fired at least once.
C16_Witness ==
    /\ job.life = "start ignored"
    /\ Cardinality(timers) = 1
    /\ job.cycles >= 2

InFlight == job.pc \notin {"idle", "done"}

\* C17: the job goes Stopped -> Running -> Stopped. While it is stopped no sync
\* cycle begins except the one start() runs; stop() takes the timer away and leaves
\* a cycle in flight as it is, and that cycle goes on to its end; stop() on a
\* stopped job changes nothing; start() on a stopped job begins a cycle and arms
\* one timer.
C17_StoppedRunningStopped ==
    /\ [][ /\ (~Running /\ job'.cycles # job.cycles) =>
                    (job'.life = "started" /\ Running')
           /\ (job'.life = "stopped" /\ job.life # "stopped") =>
                    /\ Running /\ ~Running'
                    /\ timers' = {}
                    /\ job' = [job EXCEPT !.life = "stopped"]
           /\ (job'.life = "stop ignored" /\ job.life # "stop ignored") =>
                    /\ ~Running /\ ~Running'
                    /\ timers' = timers
                    /\ job' = [job EXCEPT !.life = "stop ignored"]
                    /\ <<pg, redis, procs, appends>>' = <<pg, redis, procs, appends>>
           /\ (~Running /\ job'.life = "started") =>
                    /\ Running'
                    /\ Cardinality(timers') = 1
                    /\ job'.cycles = job.cycles + 1 ]_vars
    /\ \A n \in 1..MaxTicks :
            (InFlight /\ ~Running /\ job.cycles = n) ~> (job.pc = "done" /\ job.cycles = n)

\* stop() has been called while a cycle was between two of its store calls.
C17_Witness ==
    /\ job.life = "stopped"
    /\ ~Running
    /\ job.pc \in {"get", "existing", "insert"}

\* C18: the reply of the signup, login and Google-login routes does not depend on
\* warmCache. The reply is sent while the warmCache call is still running (or was
\* never made), and whatever that call does afterwards, failing on the durable read
\* or on the cache write included, the reply stays the user and token the auth
\* service resolved to.
C18_AuthReplyIndependentOfWarmCache ==
    [][ \A p \in Procs :
            /\ auth'[p].reply # Null => auth'[p].reply = Reply(auth'[p].result)
            /\ auth'[p].reply # auth[p].reply => auth'[p].warm \in {"pending", "none"}
            /\ auth'[p].warm = "pending" => auth'[p].reply # Null ]_vars

\* A route has replied and the warmCache call it left running has failed since.
C18_Witness ==
    \E p \in Procs :
        /\ auth[p].warm = "settled"
        /\ ret[p].op = "warm"
        /\ ret[p].outcome = "raised"
        /\ auth[p].reply = Reply(auth[p].result)

\* C19: in every reachable state each user's cached list holds at most
\* WARM_CACHE_LIMIT (100) entries, whatever create, findByUserId, update, delete and
\* warmCache calls came before.
C19_CachedListAtMostWindow ==
    \A u \in Users : Len(GetUserMessages(redis, u)) <= WARM_CACHE_LIMIT

MissingFromCache(u) ==
    /\ HasUserMessages(redis, u)
    /\ \E r \in pg : r.userId = u /\ r.id \notin {m.id : m \in Range(GetUserMessages(redis, u))}

\* No create for any user can begin any more and no append of one is pending.
WritesStopped == pgNextId > MaxMsgs /\ appends = {}

\* C21: whenever a durable message of U is missing from U's existing cached list
\* and the writes for U have stopped, then for every limit a findByUserId(U, limit)
\* eventually returns what a durable read of U's limit most recent messages returns.
C21_DivergenceIsTransient ==
    \A limit \in Limits :
        (MissingFromCache("u1") /\ WritesStopped) ~>
            (\E p \in Procs : /\ ret[p].op = "find"
                              /\ ret[p].outcome = "ok"
                              /\ ret[p].limit = limit
                              /\ ret[p].list = PgFindByUserId(pg, "u1", limit))

\* C22: every findByUserId call eventually returns to its caller, also when a cache
\* call it issued is never answered.
C22_FindAlwaysReturns ==
    \A p \in Procs : (procs[p].op = "find") ~> (ret[p].op = "find" /\ procs[p].op = "idle")

\* warmCache of slot p returns without error in this step, having run with nothing
\* else in flight.
WarmReturns(p) ==
    /\ ret'[p].op = "warm"
    /\ ret'[p].outcome = "ok"
    /\ ret'[p].quiet
    /\ procs'[p].op = "idle"
    /\ procs[p].op = "warm" \/ ret'[p] # ret[p]

\* C23: when warmCache(U) has completed without error, U's cached list is the
\* WARM_CACHE_LIMIT most recent durable messages of U with the full TTL, whatever
\* the cache held before; when U has no durable message, U has no non-empty cached
\* list afterwards.
C23_WarmCacheOverwrites ==
    [][\A p \in Procs : WarmReturns(p) =>
        LET u == ret'[p].userId
        IN  IF \E r \in pg' : r.userId = u
            THEN /\ HasUserMessages(redis', u)
                 /\ IsMostRecent(GetUserMessages(redis', u), pg', u, WARM_CACHE_LIMIT)
                 /\ GetMessagesTTL(redis', u) = MESSAGE_TTL
            ELSE ~HasUserMessages(redis', u) \/ Len(GetUserMessages(redis', u)) = 0]_vars

\* C24: once delete(id) has returned true, id is not in the durable store again,
\* whatever sync cycle, cache append or cache rewrite runs beside or after it.
C24_DeletedIdStaysDeleted ==
    \A p \in Procs :
        (ret[p].op = "delete" /\ ret[p].outcome = "ok" /\ ret[p].ok) => ~PgHasId(pg, ret[p].id)

\* The entries of list whose id is not id, in their order.
Without(list, id) == SelectSeq(list, LAMBDA m : m.id # id)

\* delete of slot p returns in this step, having run with nothing else in flight.
DeleteReturns(p) ==
    /\ procs[p].op = "delete"
    /\ procs'[p].op = "idle"
    /\ ret'[p].outcome = "ok"
    /\ ret'[p].quiet

\* C25: a delete(id) that runs alone and returns true leaves id neither in the
\* durable store nor in a cached list, and its rewrite of the owner's cached list
\* keeps every other entry as it was and in its place; a delete(id) of an id the
\* durable store does not hold returns false without having made a cache call.
C25_DeleteRemovesFromBoth ==
    [][\A p \in Procs :
        /\ (procs[p].op = "delete" /\ procs[p].pc = "d_set" /\ procs[p].quiet
                /\ procs'[p].pc = "d_pg") =>
                GetUserMessages(redis', procs[p].userId) =
                    Without(GetUserMessages(redis, procs[p].userId), procs[p].id)
        /\ (DeleteReturns(p) /\ ret'[p].ok) =>
                /\ ~PgHasId(pg', ret'[p].id)
                /\ \A u \in Users : \A m \in Range(GetUserMessages(redis', u)) : m.id # ret'[p].id
        /\ (DeleteReturns(p) /\ ~ret'[p].ok) =>
                /\ ~PgHasId(pg, ret'[p].id)
                /\ ret'[p].userId = ""
                /\ redis' = redis
                /\ pg' = pg]_vars

\* A delete that ran alone has returned true and two other messages are left in
\* the owner's cached list.
C25_Witness ==
    \E p \in Procs :
        /\ ret[p].op = "delete"
        /\ ret[p].outcome = "ok"
        /\ ret[p].ok
        /\ ret[p].quiet
        /\ Len(GetUserMessages(redis, ret[p].userId)) = 2
        /\ Cardinality({r \in pg : r.userId = ret[p].userId}) = 2

\* C26: an update(id, fields) that runs alone rewrites the owner's existing cached
\* list so that the entry with that id carries the given fields and every other
\* entry is as it was, in its place; it creates no cached list where there was
\* none; and for an id the durable store does not hold it returns absent in the
\* step of its durable call, with no cache call.
C26_UpdateRewritesOneEntry ==
    [][\A p \in Procs :
        /\ (procs[p].op = "update" /\ procs[p].pc = "u_set" /\ procs[p].quiet
                /\ procs'[p].op = "idle" /\ ret'[p].outcome = "ok") =>
            LET before == GetUserMessages(redis, procs[p].userId)
                after == GetUserMessages(redis', procs[p].userId)
            IN  /\ Len(after) = Len(before)
                /\ \A i \in 1..Len(before) :
                        IF before[i].id = procs[p].id
                        THEN \A f \in DOMAIN before[i] :
                                after[i][f] = IF f \in DOMAIN procs[p].updates
                                              THEN procs[p].updates[f] ELSE before[i][f]
                        ELSE after[i] = before[i]
        /\ (procs[p].op = "update" /\ procs[p].pc = "u_get" /\ procs'[p].op = "idle"
                /\ ret'[p].outcome = "ok") =>
                (redis[procs[p].userId] = Null /\ redis' = redis)
        /\ (ret'[p].op = "update" /\ ret'[p].outcome = "ok" /\ ret'[p].row = Null
                /\ ret'[p] # ret[p]) =>
                /\ procs[p].op = "idle" /\ procs'[p].op = "idle"
                /\ ~PgHasId(pg, ret'[p].id)
                /\ redis' = redis
                /\ pg' = pg]_vars

\* An update that ran alone has returned: of the two entries of the owner's cached
\* list one carries the new content and the other the old one.
C26_Witness ==
    \E p \in Procs :
        /\ ret[p].op = "update"
        /\ ret[p].outcome = "ok"
        /\ ret[p].quiet
        /\ ret[p].row # Null
        /\ LET list == GetUserMessages(redis, ret[p].userId)
           IN  /\ Len(list) = 2
               /\ \E i, j \in 1..2 : /\ list[i].id = ret[p].id
                                     /\ list[i].content = "edited"
                                     /\ list[j].id # ret[p].id
                                     /\ list[j].content = "hi"

\* C27: when two sync cycles overlap, the durable store never holds two rows with
\* one message id, and an insert one cycle loses to the other does not end it.
C27_OneRowPerIdUnderOverlap ==
    /\ \A r1, r2 \in pg : r1.id = r2.id => r1 = r2
    /\ overlap.attempted \subseteq overlap.candidates
    /\ (overlap.pc = "done" /\ overlap.scanned) => overlap.attempted = overlap.candidates

\* Both cycles are over: they overlapped on one user, the first inserted the
\* message and the second's insert of the same id was refused.
C27_Witness ==
    /\ job.pc = "done"
    /\ overlap.pc = "done"
    /\ job.inserted # {}
    /\ overlap.inserted = {}
    /\ overlap.failedUsers # {}
    /\ overlap.failedUsers \subseteq job.attempted
    /\ \A id \in job.inserted : Cardinality({r \in pg : r.id = id}) = 1

\* ----------------------------------------------------------------------- C28
\* The users a cycle's scan found with a ttl reply t, 0 < t <= TTL_THRESHOLD.
DueAtScan(j) == {u \in Users : j.ttlSeen[u] > 0 /\ j.ttlSeen[u] <= TTL_THRESHOLD}

C29_InsertsOnlyAbsentIds ==
    [][(job.pc = "insert" /\ job' # job) => ~PgHasId(pg, Head(job.newMessages).id)]_vars

\* ----------------------------------------------------------------------- C30
\* C30: in every reachable state a cached list contains each message id at most
\* once, also when the background append of create runs beside a cache-miss populate
\* or a warmCache whose durable read already included the new message.
C30_CachedIdsAreDistinct ==
    \A u \in Users :
        LET cached == GetUserMessages(redis, u)
        IN  \A i, k \in 1..Len(cached) : cached[i].id = cached[k].id => i = k

\* ----------------------------------------------------------------------- C31
\* C31: a findByUserId(U, L2) served from a cache entry that an earlier
\* findByUserId(U, L1) with L1 < L2 populated, and that nothing has written since,
\* returns the same list as a durable read of U's L2 most recent messages (checked
\* where no cache append is pending, so that nothing but the two reads is at work).
C31_WiderReadOfPopulatedEntry ==
    [][\A p \in Procs :
        (/\ FindReturns(p)
         /\ appends = {}
         /\ ret'[p].outcome = "ok"
         /\ ret'[p].hit
         /\ fresh[ret'[p].userId] # Null
         /\ fresh[ret'[p].userId].limit < ret'[p].limit) =>
            ret'[p].list = PgFindByUserId(pg, ret'[p].userId, ret'[p].limit)]_vars

\* ----------------------------------------------------------------------- C32
\* The cached list of userId is the single message that an append wrote on finding
\* no entry, although userId has earlier durable messages. Under SpecCold no entry
\* expires and fresh is Null unless a cache miss wrote the entry last, so a list of
\* one message under a Null fresh was written by an append whose read found nothing,
\* and nothing was cached when its create ran.
AppendedAlone(list, userId) ==
    /\ fresh[userId] = Null
    /\ appends = {}
    /\ Len(list) = 1
    /\ GetUserMessages(redis, userId) = list
    /\ \E r \in pg : r.userId = userId /\ r.timestamp < list[1].timestamp

\* C32: if U has earlier durable messages but no cache entry when create(m) runs,
\* then after the background append has completed, findByUserId(U, limit) returns
\* U's min(limit, total) most recent messages, the earlier durable ones followed by m.
C32_ColdAppendThenFind ==
    [][\A p \in Procs :
        (/\ FindReturns(p)
         /\ ret'[p].outcome = "ok"
         /\ AppendedAlone(procs[p].list, procs[p].userId)) =>
            /\ IsMostRecent(ret'[p].list, pg, ret'[p].userId, ret'[p].limit)
            /\ ret'[p].list[Len(ret'[p].list)] = procs[p].list[1]]_vars

\* ----------------------------------------------------------------------- C33
\* Message m is among the limit most recent durable messages of its owner.
WithinLimit(m, rows, limit) ==
    Cardinality({r \in rows : r.userId = m.userId /\ r.timestamp >= m.timestamp}) <= limit

\* C33: after create(m) has returned for user U, a later findByUserId(U, limit)
\* returns a list that contains m as long as m is not deleted (and is among U's
\* limit most recent messages), whether or not the background cache append of m has
\* completed when the read starts. A slot's read starts after every create that the
\* slot or, with the other slots idle, any slot has returned.
C33_CreatedIsReadBack ==
    [][\A p \in Procs :
        (/\ FindReturns(p)
         /\ ret'[p].outcome = "ok"
         /\ \A q \in Procs \ {p} : procs[q].op = "idle") =>
            \A m \in created :
                (/\ m.userId = ret'[p].userId
                 /\ PgHasId(pg, m.id)
                 /\ WithinLimit(m, pg, ret'[p].limit)) =>
                    \E i \in 1..Len(ret'[p].list) : ret'[p].list[i].id = m.id]_vars

\* ----------------------------------------------------------------------- C34
\* C34: after update(id, fields) returns for a message whose owner has a cached
\* list, with no concurrent operation, every cached entry for id is field for field
\* equal to the durable row update returned, for every set of fields passed,
\* a timestamp included.
C34_CachedEntryEqualsUpdatedRow ==
    [][\A p \in Procs :
        (/\ procs[p].op = "update" /\ procs[p].pc = "u_set" /\ procs[p].quiet
         /\ procs'[p].op = "idle" /\ ret'[p].outcome = "ok") =>
            LET after == GetUserMessages(redis', procs[p].userId)
            IN  \A i \in 1..Len(after) :
                    after[i].id = procs[p].id => after[i] = ret'[p].row]_vars

C36_SyncOnlyInsertsRows ==
    [][job' # job =>
        /\ redis' = redis
        /\ pg \subseteq pg'
        /\ pg' # pg =>
              /\ job.pc = "insert"
              /\ pg' \ pg = {PgFindById(pg', Head(job.newMessages).id)}
              /\ ~PgHasId(pg, Head(job.newMessages).id)]_vars

\* A cycle has ended after inserting a row beside another durable row, and the
\* entry it read is still cached with the TTL the scan found.
C36_Witness ==
    /\ job.pc = "done"
    /\ job.inserted # {}
    /\ \E r \in pg : r.id \notin job.inserted
    /\ \E u \in job.attempted :
            /\ redis[u] # Null
            /\ redis[u].ttl = job.ttlSeen[u]
            /\ \E m \in Range(GetUserMessages(redis, u)) : m.id \in job.inserted
====
